---- MODULE Spec2Model ----
(***************************************************************************)
(* Model of pyoptools/raytrace/ray/ray_source.py: the seven beam           *)
(* generators, each as a call / loop-body / return state machine.          *)
(*                                                                         *)
(* Numbers.  Python floats are modelled by exact rationals <<n, d>>        *)
(* (d > 0, lowest terms).  The float constants pi and sqrt(3.) are the     *)
(* rationals Pi and Sqrt3; sqrt() of a computed value is kept exact as a   *)
(* signed square root [sgn, sq] (value sgn * sqrt(sq)).  The values        *)
(* sin(a), cos(a) and 2*pi*t/nt are kept symbolic: a coordinate is a       *)
(* record [c, u] standing for c * u, where u is a unit: 1, sin(2 pi t/nt), *)
(* cos(2 pi t/nt), pi, or the lattice spacings l and h of the hexagonal    *)
(* grid.                                                                   *)
(***************************************************************************)
EXTENDS Integers, Sequences, FiniteSets, TLC

VARIABLES fn, pc, args, loc, ret_val, err

vars == <<fn, pc, args, loc, ret_val, err>>

(***************************************************************************)
(* Bounds of the model.                                                    *)
(***************************************************************************)
MaxCount == 3      \* grid / ring / ray counts range over -1..MaxCount
MaxExtent == 2     \* sizes, radii and spans range over -1..MaxExtent
MaxLen == 3        \* longest coordinate list given to parallel_beam_list
MaxNumRays == 12   \* largest integer num_rays given to parallel_beam_h
MaxIdx == 6        \* window in which floor() and ceil() look for their value
HexWindow == 3     \* lattice indices -HexWindow..HexWindow examined for C10

(***************************************************************************)
(* Rational arithmetic.                                                    *)
(***************************************************************************)
Abs(a) == IF a < 0 THEN -a ELSE a

Sign(a) == IF a < 0 THEN -1 ELSE IF a = 0 THEN 0 ELSE 1

RECURSIVE GCD(_, _)
GCD(a, b) == IF b = 0 THEN a ELSE GCD(b, a % b)

Norm(n, d) ==
    LET g == GCD(Abs(n), Abs(d))
    IN  IF d < 0 THEN <<-(n \div g), -(d \div g)>> ELSE <<n \div g, d \div g>>

R(n) == <<n, 1>>

RNeg(p) == <<-p[1], p[2]>>

RAdd(p, q) ==
    LET g == GCD(p[2], q[2])
    IN  Norm(p[1] * (q[2] \div g) + q[1] * (p[2] \div g), p[2] * (q[2] \div g))

RMul(p, q) ==
    LET a == Norm(p[1], q[2])
        b == Norm(q[1], p[2])
    IN  Norm(a[1] * b[1], a[2] * b[2])

RDiv(p, q) == RMul(p, Norm(q[2], q[1]))

RLe(p, q) ==
    LET g == GCD(p[2], q[2])
    IN  p[1] * (q[2] \div g) <= q[1] * (p[2] \div g)

RLt(p, q) == RLe(p, q) /\ p # q

RSign(p) == Sign(p[1])

RSq(p) == RMul(p, p)

(***************************************************************************)
(* Signed square roots: [sgn, sq] is the real number sgn * sqrt(sq).       *)
(***************************************************************************)
Sqrt(q) == [sgn |-> RSign(q), sq |-> q]

SNeg(s) == [sgn |-> -s.sgn, sq |-> s.sq]

SMulR(s, q) == [sgn |-> s.sgn * RSign(q), sq |-> RMul(s.sq, RSq(q))]

RDivS(q, s) == [sgn |-> RSign(q) * s.sgn, sq |-> RDiv(RSq(q), s.sq)]

\* q >= s, for a rational q and a signed square root s
RGeS(q, s) ==
    IF s.sgn >= 0 THEN RSign(q) >= 0 /\ RLe(s.sq, RSq(q))
                  ELSE RSign(q) >= 0 \/ RLe(RSq(q), s.sq)

\* q <= s
RLeS(q, s) ==
    IF s.sgn >= 0 THEN RSign(q) <= 0 \/ RLe(RSq(q), s.sq)
                  ELSE RSign(q) <= 0 /\ RLe(s.sq, RSq(q))

\* int(floor(s + q)) and int(ceil(s + q))
floor(s, q) ==
    CHOOSE m \in -MaxIdx..MaxIdx :
        RLeS(RAdd(R(m), RNeg(q)), s) /\ ~RLeS(RAdd(R(m + 1), RNeg(q)), s)

ceil(s, q) ==
    CHOOSE m \in -MaxIdx..MaxIdx :
        RGeS(RAdd(R(m), RNeg(q)), s) /\ ~RGeS(RAdd(R(m - 1), RNeg(q)), s)

(***************************************************************************)
(* The float constants of the module.                                      *)
(***************************************************************************)
Pi == <<22, 7>>

Sqrt3 == <<26, 15>>

DefaultWavelength == <<58929, 100000>>

(***************************************************************************)
(* Coordinates, frames and rays.                                           *)
(***************************************************************************)
One == <<"1", 0, 1>>

Num(q) == [c |-> q, u |-> One]

Zero == Num(R(0))

Unit(name) == <<name, 0, 1>>

\* r * sin(2*pi*t/nt) and r * cos(2*pi*t/nt)
sin(r, t, nt) == [c |-> r, u |-> <<"sin", t, nt>>]

cos(r, t, nt) == [c |-> r, u |-> <<"cos", t, nt>>]

\* Ray(pos, dir, wavelength, label): a fresh ray, no transform applied yet
Ray(pos, dir, wavelength, label) ==
    [pos |-> pos, dir |-> dir, wavelength |-> wavelength, label |-> label,
     tr |-> <<>>]

\* ray.ch_coord_sys_inv(origin, direction): a new ray; the ray records the
\* transforms applied to it, in the order of the calls
ch_coord_sys_inv(ray, origin, direction) ==
    [ray EXCEPT !.tr = Append(@, [origin |-> origin, direction |-> direction])]

Origin0 == <<Zero, Zero, Zero>>

ZAxis == <<0, 0, 1>>

\* the caller's frames the model draws from
Frames ==
    { [origin |-> Origin0, direction |-> <<Zero, Zero, Zero>>],
      [origin |-> <<Num(R(1)), Num(R(2)), Num(R(3))>>,
       direction |-> <<Num(<<1, 2>>), Zero, Num(<<1, 4>>)>>] }

Counts == -1..MaxCount

Extents == {R(k) : k \in -1..MaxExtent} \cup {<<1, 2>>}

(***************************************************************************)
(* Python's nested for loops over range(ilo, ihi) x range(jlo, jhi): the   *)
(* pair after <<i, j>>, whether a pair is pending, whether all are done.   *)
(***************************************************************************)
\* mutant: the inner loop stops one pass early
NextPair_m(i, j, jlo, jhi) ==
    IF j + 1 < jhi - 1 THEN <<i, j + 1>> ELSE <<i + 1, jlo>>

NextPair(i, j, jlo, jhi) == IF j + 1 < jhi THEN <<i, j + 1>> ELSE <<i + 1, jlo>>

Pending(i, ihi, jlo, jhi) == i < ihi /\ jlo < jhi

Init ==
    /\ fn = "none"
    /\ pc = "idle"
    /\ args = <<>>
    /\ loc = <<>>
    /\ ret_val = <<>>
    /\ err = "none"

(***************************************************************************)
(* parallel_beam_c                                                         *)
(***************************************************************************)
\* mutant: the spacing is d/n instead of d/(n-1)
GridCoord_m(d, i, n) ==
    RAdd(RDiv(RNeg(d), R(2)), RDiv(RMul(d, R(i)), R(n)))

\* -d/2.+d*i/(n-1), for n-1 # 0
GridCoord(d, i, n) ==
    RAdd(RDiv(RNeg(d), R(2)), RDiv(RMul(d, R(i)), R(n - 1)))

parallel_beam_c_call ==
    /\ pc = "idle"
    /\ \E f \in Frames, nx \in Counts, ny \in Counts, dx \in Extents, dy \in Extents :
        /\ args' = [origin |-> f.origin, direction |-> f.direction,
                    size |-> <<dx, dy>>, num_rays |-> <<nx, ny>>,
                    wavelength |-> DefaultWavelength, label |-> ""]
        /\ loc' = [nx |-> nx, ny |-> ny, dx |-> dx, dy |-> dy, ix |-> 0, iy |-> 0]
    /\ fn' = "parallel_beam_c"
    /\ pc' = "loop"
    /\ ret_val' = <<>>
    /\ UNCHANGED err

parallel_beam_c_body ==
    /\ fn = "parallel_beam_c" /\ pc = "loop"
    /\ Pending(loc.ix, loc.nx, 0, loc.ny)
    /\ IF loc.nx - 1 = 0 \/ loc.ny - 1 = 0
       THEN /\ pc' = "raised"
            /\ err' = "ZeroDivisionError"
            /\ UNCHANGED <<loc, ret_val>>
       ELSE LET x == GridCoord(loc.dx, loc.ix, loc.nx)
                y == GridCoord(loc.dy, loc.iy, loc.ny)
                n == NextPair(loc.ix, loc.iy, 0, loc.ny)
            IN  /\ ret_val' = Append(ret_val,
                      ch_coord_sys_inv(Ray(<<Num(x), Num(y), Zero>>, ZAxis,
                                           args.wavelength, args.label),
                                       args.origin, args.direction))
                /\ loc' = [loc EXCEPT !.ix = n[1], !.iy = n[2]]
                /\ UNCHANGED <<pc, err>>
    /\ UNCHANGED <<fn, args>>

parallel_beam_c_return ==
    /\ fn = "parallel_beam_c" /\ pc = "loop"
    /\ ~Pending(loc.ix, loc.nx, 0, loc.ny)
    /\ pc' = "done"
    /\ UNCHANGED <<fn, args, loc, ret_val, err>>

(***************************************************************************)
(* parallel_beam_p                                                         *)
(***************************************************************************)
\* radius*float(r_)/(nr-1), for nr-1 # 0
RingRadius(radius, r_, nr) == RDiv(RMul(radius, R(r_)), R(nr - 1))

\* the ray the polar generators start their result with
CentreRay(a) ==
    ch_coord_sys_inv(Ray(Origin0, ZAxis, a.wavelength, a.label),
                     a.origin, a.direction)

\* mutant: the azimuth divides by t instead of nt
PolarDivZero_m(t, nt, nr) == nr - 1 = 0 \/ t = 0

\* the divisions of one inner pass: by nr-1 (line 77) and by nt (lines 79-80)
PolarDivZero(t, nt, nr) == nr - 1 = 0 \/ nt = 0

parallel_beam_p_call ==
    /\ pc = "idle"
    /\ \E f \in Frames, nr \in Counts, nt \in Counts, radius \in Extents :
        LET a == [origin |-> f.origin, direction |-> f.direction,
                  radius |-> radius, num_rays |-> <<nr, nt>>,
                  wavelength |-> DefaultWavelength, label |-> ""]
        IN  /\ args' = a
            /\ ret_val' = <<CentreRay(a)>>
            /\ loc' = [nr |-> nr, nt |-> nt, r_ |-> 1, t |-> 0]
    /\ fn' = "parallel_beam_p"
    /\ pc' = "loop"
    /\ UNCHANGED err

parallel_beam_p_body ==
    /\ fn = "parallel_beam_p" /\ pc = "loop"
    /\ Pending(loc.r_, loc.nr, 0, loc.nt)
    /\ IF PolarDivZero(loc.t, loc.nt, loc.nr)
       THEN /\ pc' = "raised"
            /\ err' = "ZeroDivisionError"
            /\ UNCHANGED <<loc, ret_val>>
       ELSE LET r == RingRadius(args.radius, loc.r_, loc.nr)
                x_ == sin(r, loc.t, loc.nt)
                y_ == cos(r, loc.t, loc.nt)
                n == NextPair(loc.r_, loc.t, 0, loc.nt)
            IN  /\ ret_val' = Append(ret_val,
                      ch_coord_sys_inv(Ray(<<x_, y_, Zero>>, ZAxis,
                                           args.wavelength, args.label),
                                       args.origin, args.direction))
                /\ loc' = [loc EXCEPT !.r_ = n[1], !.t = n[2]]
                /\ UNCHANGED <<pc, err>>
    /\ UNCHANGED <<fn, args>>

parallel_beam_p_return ==
    /\ fn = "parallel_beam_p" /\ pc = "loop"
    /\ ~Pending(loc.r_, loc.nr, 0, loc.nt)
    /\ pc' = "done"
    /\ UNCHANGED <<fn, args, loc, ret_val, err>>

(***************************************************************************)
(* point_source_c                                                          *)
(***************************************************************************)
\* mutant: a single sample is put at -d/2 instead of 0
TiltCoord_m(d, i, n) == IF n # 1 THEN GridCoord(d, i, n) ELSE RDiv(RNeg(d), R(2))

\* if n!=1: t=-d/2.+d*i/(n-1)  else: t=0.
TiltCoord(d, i, n) == IF n # 1 THEN GridCoord(d, i, n) ELSE R(0)

\* mutant: the caller's frame is applied before the tilt
PlaceTilted_m(tilt, a) ==
    LET temp_ray == ch_coord_sys_inv(Ray(Origin0, ZAxis, a.wavelength, a.label),
                                     a.origin, a.direction)
    IN  ch_coord_sys_inv(temp_ray, Origin0, tilt)

\* Ray(pos=(0,0,0),dir=(0,0,1)).ch_coord_sys_inv((0,0,0),tilt), and then
\* .ch_coord_sys_inv(origin,direction) on the result
PlaceTilted(tilt, a) ==
    LET temp_ray == ch_coord_sys_inv(Ray(Origin0, ZAxis, a.wavelength, a.label),
                                     Origin0, tilt)
    IN  ch_coord_sys_inv(temp_ray, a.origin, a.direction)

point_source_c_call ==
    /\ pc = "idle"
    /\ \E f \in Frames, nx \in Counts, ny \in Counts, dx \in Extents, dy \in Extents :
        /\ args' = [origin |-> f.origin, direction |-> f.direction,
                    span |-> <<dx, dy>>, num_rays |-> <<nx, ny>>,
                    wavelength |-> DefaultWavelength, label |-> ""]
        /\ loc' = [nx |-> nx, ny |-> ny, dx |-> dx, dy |-> dy, ix |-> 0, iy |-> 0]
    /\ fn' = "point_source_c"
    /\ pc' = "loop"
    /\ ret_val' = <<>>
    /\ UNCHANGED err

point_source_c_body ==
    /\ fn = "point_source_c" /\ pc = "loop"
    /\ Pending(loc.ix, loc.nx, 0, loc.ny)
    /\ LET tx == TiltCoord(loc.dx, loc.ix, loc.nx)
           ty == TiltCoord(loc.dy, loc.iy, loc.ny)
           n == NextPair(loc.ix, loc.iy, 0, loc.ny)
       IN  /\ ret_val' = Append(ret_val,
                                PlaceTilted(<<Num(tx), Num(ty), Zero>>, args))
           /\ loc' = [loc EXCEPT !.ix = n[1], !.iy = n[2]]
    /\ UNCHANGED <<fn, pc, args, err>>

point_source_c_return ==
    /\ fn = "point_source_c" /\ pc = "loop"
    /\ ~Pending(loc.ix, loc.nx, 0, loc.ny)
    /\ pc' = "done"
    /\ UNCHANGED <<fn, args, loc, ret_val, err>>

(***************************************************************************)
(* point_source_p                                                          *)
(***************************************************************************)
\* mutant: the denominator of the spatial variant, nr-1
RingTilt_m(span, r_, nr) == RDiv(RMul(span, R(r_)), R(nr - 1))

\* span*float(r_)/nr, for nr # 0
RingTilt(span, r_, nr) == RDiv(RMul(span, R(r_)), R(nr))

\* 2*pi*t/nt, for nt # 0, as a multiple of pi
Azimuth(t, nt) == [c |-> RDiv(R(2 * t), R(nt)), u |-> Unit("pi")]

\* temp_ray=Ray(...).ch_coord_sys_inv((0,0,0),(r,0,0));
\* temp_ray1=temp_ray.ch_coord_sys_inv((0,0,0),(0,0,tz));
\* temp_ray1.ch_coord_sys_inv(origin,direction)
PlaceRing(r, tz, a) ==
    LET temp_ray == ch_coord_sys_inv(Ray(Origin0, ZAxis, a.wavelength, a.label),
                                     Origin0, <<Num(r), Zero, Zero>>)
        temp_ray1 == ch_coord_sys_inv(temp_ray, Origin0, <<Zero, Zero, tz>>)
    IN  ch_coord_sys_inv(temp_ray1, a.origin, a.direction)

point_source_p_call ==
    /\ pc = "idle"
    /\ \E f \in Frames, nr \in Counts, nt \in Counts, span \in Extents :
        LET a == [origin |-> f.origin, direction |-> f.direction,
                  span |-> span, num_rays |-> <<nr, nt>>,
                  wavelength |-> DefaultWavelength, label |-> ""]
        IN  /\ args' = a
            /\ ret_val' = <<CentreRay(a)>>
            /\ loc' = [nr |-> nr, nt |-> nt, r_ |-> 1, t |-> 0]
    /\ fn' = "point_source_p"
    /\ pc' = "loop"
    /\ UNCHANGED err

point_source_p_body ==
    /\ fn = "point_source_p" /\ pc = "loop"
    /\ Pending(loc.r_, loc.nr, 0, loc.nt)
    /\ IF loc.nr = 0 \/ loc.nt = 0
       THEN /\ pc' = "raised"
            /\ err' = "ZeroDivisionError"
            /\ UNCHANGED <<loc, ret_val>>
       ELSE LET r == RingTilt(args.span, loc.r_, loc.nr)
                tz == Azimuth(loc.t, loc.nt)
                n == NextPair(loc.r_, loc.t, 0, loc.nt)
            IN  /\ ret_val' = Append(ret_val, PlaceRing(r, tz, args))
                /\ loc' = [loc EXCEPT !.r_ = n[1], !.t = n[2]]
                /\ UNCHANGED <<pc, err>>
    /\ UNCHANGED <<fn, args>>

point_source_p_return ==
    /\ fn = "point_source_p" /\ pc = "loop"
    /\ ~Pending(loc.r_, loc.nr, 0, loc.nt)
    /\ pc' = "done"
    /\ UNCHANGED <<fn, args, loc, ret_val, err>>

(***************************************************************************)
(* point_source_r                                                          *)
(***************************************************************************)
\* the values numpy.random.normal(0, span) is drawn from in the model:
\* the mean and one standard deviation either side of it
normal(span) == {RMul(span, R(k)) : k \in -1..1}

point_source_r_call ==
    /\ pc = "idle"
    /\ \E f \in Frames, num_rays \in Counts, span \in Extents :
        /\ args' = [origin |-> f.origin, direction |-> f.direction,
                    span |-> span, num_rays |-> num_rays,
                    wavelength |-> DefaultWavelength, label |-> ""]
        /\ loc' = [n_ |-> 0]
    /\ fn' = "point_source_r"
    /\ pc' = "loop"
    /\ ret_val' = <<>>
    /\ UNCHANGED err

\* numpy.random.normal raises ValueError for a negative scale
point_source_r_body ==
    /\ fn = "point_source_r" /\ pc = "loop"
    /\ loc.n_ < args.num_rays
    /\ IF RSign(args.span) < 0
       THEN /\ pc' = "raised"
            /\ err' = "ValueError"
            /\ UNCHANGED <<loc, ret_val>>
       ELSE \E rx \in normal(args.span), ry \in normal(args.span) :
                /\ ret_val' = Append(ret_val,
                                     PlaceTilted(<<Num(rx), Num(ry), Zero>>, args))
                /\ loc' = [loc EXCEPT !.n_ = @ + 1]
                /\ UNCHANGED <<pc, err>>
    /\ UNCHANGED <<fn, args>>

point_source_r_return ==
    /\ fn = "point_source_r" /\ pc = "loop"
    /\ ~(loc.n_ < args.num_rays)
    /\ pc' = "done"
    /\ UNCHANGED <<fn, args, loc, ret_val, err>>

(***************************************************************************)
(* parallel_beam_list                                                      *)
(***************************************************************************)
\* A coordinate argument: a scalar, [seq |-> FALSE, v |-> q], or a sequence,
\* [seq |-> TRUE, v |-> <<q1, ..., qn>>]; hasattr(x, '__len__') is x.seq.
ListValues == {R(1), R(2)}

ListArgs ==
    {[seq |-> FALSE, v |-> q] : q \in ListValues} \cup
    {[seq |-> TRUE, v |-> s] :
        s \in UNION {[1..n -> ListValues] : n \in 0..MaxLen}}

\* itertools.repeat(v, n)
repeat(v, n) == [k \in 1..n |-> v]

Min(a, b) == IF a <= b THEN a ELSE b

\* mutant: the lengths of two sequences are not compared
Broadcast_m(x, y) ==
    IF ~x.seq /\ ~y.seq THEN [ok |-> TRUE, x |-> <<x.v>>, y |-> <<y.v>>]
    ELSE IF ~x.seq THEN [ok |-> TRUE, x |-> repeat(x.v, Len(y.v)), y |-> y.v]
    ELSE IF ~y.seq THEN [ok |-> TRUE, x |-> x.v, y |-> repeat(y.v, Len(x.v))]
    ELSE [ok |-> TRUE, x |-> x.v, y |-> y.v]

\* lines 216-225: the two sequences handed to zip, or the assertion failing
Broadcast(x, y) ==
    IF ~x.seq /\ ~y.seq THEN [ok |-> TRUE, x |-> <<x.v>>, y |-> <<y.v>>]
    ELSE IF ~x.seq THEN [ok |-> TRUE, x |-> repeat(x.v, Len(y.v)), y |-> y.v]
    ELSE IF ~y.seq THEN [ok |-> TRUE, x |-> x.v, y |-> repeat(y.v, Len(x.v))]
    ELSE [ok |-> Len(x.v) = Len(y.v), x |-> x.v, y |-> y.v]

parallel_beam_list_call ==
    /\ pc = "idle"
    /\ \E f \in Frames, x \in ListArgs, y \in ListArgs :
        LET b == Broadcast(x, y)
        IN  /\ args' = [x |-> x, y |-> y, origin |-> f.origin,
                        direction |-> f.direction,
                        wavelength |-> DefaultWavelength, label |-> ""]
            /\ IF b.ok
               THEN /\ loc' = [x |-> b.x, y |-> b.y, k |-> 1]
                    /\ pc' = "loop"
                    /\ UNCHANGED err
               ELSE /\ loc' = <<>>
                    /\ pc' = "raised"
                    /\ err' = "AssertionError"
    /\ fn' = "parallel_beam_list"
    /\ ret_val' = <<>>

\* one step of  for _x, _y in zip(x, y)
parallel_beam_list_body ==
    /\ fn = "parallel_beam_list" /\ pc = "loop"
    /\ loc.k <= Min(Len(loc.x), Len(loc.y))
    /\ LET _x == loc.x[loc.k]
           _y == loc.y[loc.k]
       IN  ret_val' = Append(ret_val,
               ch_coord_sys_inv(Ray(<<Num(_x), Num(_y), Zero>>, ZAxis,
                                    args.wavelength, args.label),
                                args.origin, args.direction))
    /\ loc' = [loc EXCEPT !.k = @ + 1]
    /\ UNCHANGED <<fn, pc, args, err>>

parallel_beam_list_return ==
    /\ fn = "parallel_beam_list" /\ pc = "loop"
    /\ ~(loc.k <= Min(Len(loc.x), Len(loc.y)))
    /\ pc' = "done"
    /\ UNCHANGED <<fn, args, loc, ret_val, err>>

(***************************************************************************)
(* parallel_beam_h                                                         *)
(***************************************************************************)
Shrink == <<97, 100>>

\* the square of  l = sqrt(2./3/sqrt(3) * area) * 0.97
LSquared(area) == RMul(RMul(RDiv(RDiv(R(2), R(3)), Sqrt3), area), RSq(Shrink))

\* num_rays = 9 * LSquared(pi): the count at which radius/3./l is exactly 1
\* (for the code's floats: num_rays = 10.239622930847853 with radius = 1.0)
TieNumRays == RMul(R(9), LSquared(Pi))

Radii == {R(-1), R(0), R(1)}

NumRays == {R(n) : n \in -1..MaxNumRays} \cup {TieNumRays}

\* lines 260-261 and 268-269: the bounds of the four xrange() calls; off is
\* 0 for the first sublattice and 0.5 for the second
HexRange(r, off) == <<floor(SNeg(r), RNeg(off)), ceil(r, RNeg(off))>>

Half == <<1, 2>>

\* lines 262-263 and 270-271: the coefficients of l in x_ and of h in y_
HexX(sub, kx) == IF sub = 1 THEN R(3 * kx) ELSE RAdd(R(3 * kx), <<3, 2>>)

HexY(sub, ky) == IF sub = 1 THEN R(2 * ky) ELSE RAdd(R(2 * ky), R(1))

\* mutant: only x_**2 is compared with radius_sq
HexInside_m(sub, kx, ky, l, h, radius_sq) ==
    RLe(SMulR(l, HexX(sub, kx)).sq, radius_sq)

\* x_**2 + y_**2 <= radius_sq
HexInside(sub, kx, ky, l, h, radius_sq) ==
    RLe(RAdd(SMulR(l, HexX(sub, kx)).sq, SMulR(h, HexY(sub, ky)).sq), radius_sq)

HexRay(sub, kx, ky, a) ==
    ch_coord_sys_inv(
        Ray(<<[c |-> HexX(sub, kx), u |-> Unit("l")],
              [c |-> HexY(sub, ky), u |-> Unit("h")], Zero>>,
            ZAxis, a.wavelength, a.label),
        a.origin, a.direction)

\* lines 253-258.  pi*radius_sq/num_rays raises for num_rays = 0; the sqrt of
\* a negative area is nan, and so is radius/3./l for l = 0: int(floor(nan))
\* raises ValueError at line 260.
parallel_beam_h_call ==
    /\ pc = "idle"
    /\ \E f \in Frames, radius \in Radii, num_rays \in NumRays :
        LET radius_sq == RSq(radius)
            area == RDiv(RMul(Pi, radius_sq), num_rays)
            l == Sqrt(LSquared(area))
            h == SMulR(l, RDiv(Sqrt3, R(2)))
            r3l == RDivS(RDiv(radius, R(3)), l)
            r2h == RDivS(RDiv(radius, R(2)), h)
        IN  /\ args' = [origin |-> f.origin, direction |-> f.direction,
                        radius |-> radius, num_rays |-> num_rays,
                        wavelength |-> DefaultWavelength, label |-> ""]
            /\ IF RSign(num_rays) = 0
               THEN /\ loc' = <<>>
                    /\ pc' = "raised"
                    /\ err' = "ZeroDivisionError"
               ELSE IF RSign(area) < 0 \/ l.sgn = 0
               THEN /\ loc' = <<>>
                    /\ pc' = "raised"
                    /\ err' = "ValueError"
               ELSE /\ loc' = [radius_sq |-> radius_sq, l |-> l, h |-> h,
                               r3l |-> r3l, r2h |-> r2h,
                               kx |-> HexRange(r3l, R(0))[1],
                               ky |-> HexRange(r2h, R(0))[1]]
                    /\ pc' = "loop"
                    /\ UNCHANGED err
    /\ fn' = "parallel_beam_h"
    /\ ret_val' = <<>>

\* one pass of the inner loop body of sublattice sub, lines 262-267 / 270-275
HexBody(sub, off) ==
    LET rx == HexRange(loc.r3l, off)
        ry == HexRange(loc.r2h, off)
        n == NextPair(loc.kx, loc.ky, ry[1], ry[2])
    IN  /\ Pending(loc.kx, rx[2], ry[1], ry[2])
        /\ ret_val' =
             IF HexInside(sub, loc.kx, loc.ky, loc.l, loc.h, loc.radius_sq)
             THEN Append(ret_val, HexRay(sub, loc.kx, loc.ky, args))
             ELSE ret_val
        /\ loc' = [loc EXCEPT !.kx = n[1], !.ky = n[2]]

HexDone(off) ==
    LET rx == HexRange(loc.r3l, off)
        ry == HexRange(loc.r2h, off)
    IN  ~Pending(loc.kx, rx[2], ry[1], ry[2])

parallel_beam_h_body1 ==
    /\ fn = "parallel_beam_h" /\ pc = "loop"
    /\ HexBody(1, R(0))
    /\ UNCHANGED <<fn, pc, args, err>>

\* the first pair of loops is exhausted: the second pair starts
parallel_beam_h_second ==
    /\ fn = "parallel_beam_h" /\ pc = "loop"
    /\ HexDone(R(0))
    /\ loc' = [loc EXCEPT !.kx = HexRange(loc.r3l, Half)[1],
                          !.ky = HexRange(loc.r2h, Half)[1]]
    /\ pc' = "loop2"
    /\ UNCHANGED <<fn, args, ret_val, err>>

parallel_beam_h_body2 ==
    /\ fn = "parallel_beam_h" /\ pc = "loop2"
    /\ HexBody(2, Half)
    /\ UNCHANGED <<fn, pc, args, err>>

parallel_beam_h_return ==
    /\ fn = "parallel_beam_h" /\ pc = "loop2"
    /\ HexDone(Half)
    /\ pc' = "done"
    /\ UNCHANGED <<fn, args, loc, ret_val, err>>

Next ==
    \/ parallel_beam_c_call
    \/ parallel_beam_c_body
    \/ parallel_beam_c_return
    \/ parallel_beam_p_call
    \/ parallel_beam_p_body
    \/ parallel_beam_p_return
    \/ point_source_c_call
    \/ point_source_c_body
    \/ point_source_c_return
    \/ point_source_p_call
    \/ point_source_p_body
    \/ point_source_p_return
    \/ point_source_r_call
    \/ point_source_r_body
    \/ point_source_r_return
    \/ parallel_beam_list_call
    \/ parallel_beam_list_body
    \/ parallel_beam_list_return
    \/ parallel_beam_h_call
    \/ parallel_beam_h_body1
    \/ parallel_beam_h_second
    \/ parallel_beam_h_body2
    \/ parallel_beam_h_return

Spec == Init /\ [][Next]_vars

(***************************************************************************)
(* Properties.                                                             *)
(***************************************************************************)
IsCart == fn \in {"parallel_beam_c", "point_source_c"}

IsPolar == fn \in {"parallel_beam_p", "point_source_p"}

Ended == pc \in {"done", "raised"}

\* the caller's frame, as ch_coord_sys_inv records it
CallerFrame == [origin |-> args.origin, direction |-> args.direction]

\* the sample-local pair of a cartesian ray: its position in parallel_beam_c,
\* its tilt in point_source_c
LocalPair(ray) ==
    IF fn = "point_source_c"
    THEN <<ray.tr[1].direction[1].c, ray.tr[1].direction[2].c>>
    ELSE <<ray.pos[1].c, ray.pos[2].c>>

\* C1: in parallel_beam_c and point_source_c an axis with one sample puts it
\* at 0 and the call completes without a division by zero: nx = ny = 1 gives
\* one ray at local (0,0,0), and nx = 3, ny = 1 over extent (2,1) gives local
\* x-coordinates -1, 0, 1 with y = 0.
C1_SingleSampleAtZero ==
    (IsCart /\ Ended /\ loc.nx >= 1 /\ loc.ny >= 1 /\ (loc.nx = 1 \/ loc.ny = 1)) =>
        /\ pc = "done" /\ err = "none"
        /\ Len(ret_val) = loc.nx * loc.ny
        /\ \A k \in 1..Len(ret_val) :
              /\ loc.nx = 1 => LocalPair(ret_val[k])[1] = R(0)
              /\ loc.ny = 1 => LocalPair(ret_val[k])[2] = R(0)
              /\ ret_val[k].pos[3] = Zero
        /\ (loc.nx = 1 /\ loc.ny = 1) =>
              /\ ret_val[1].pos = Origin0
              /\ fn = "point_source_c" => ret_val[1].tr[1].direction = Origin0
        /\ (loc.nx = 3 /\ loc.ny = 1 /\ loc.dx = R(2) /\ loc.dy = R(1)) =>
              [k \in 1..3 |-> LocalPair(ret_val[k])] =
                  <<(<<R(-1), R(0)>>), (<<R(0), R(0)>>), (<<R(1), R(0)>>)>>

\* The part of C1 that holds: point_source_c alone.
C1_PointSourceOnly == fn = "point_source_c" => C1_SingleSampleAtZero

C1_PointSourceWitness ==
    /\ fn = "point_source_c" /\ pc = "done"
    /\ loc.nx = 3 /\ loc.ny = 1 /\ loc.dx = R(2) /\ loc.dy = R(1)

\* the ray emitted k-th (k = 1, 2, ...) by a ny-wide grid has indices
GridIx(k, ny) == (k - 1) \div ny

GridIy(k, ny) == (k - 1) % ny

\* v is sample i of n (n >= 2) evenly spaced samples from -d/2 to +d/2:
\* (v + d/2) * (n-1) = d * i
EvenlySpaced(v, d, i, n) ==
    RMul(RAdd(v, RDiv(d, R(2))), R(n - 1)) = RMul(d, R(i))

RingOf(k, nt) == (k - 2) \div nt + 1

AzimuthOf(k, nt) == (k - 2) % nt

\* the centre seed: local position (0,0,0), direction +Z, placed once
IsCentreSeed(ray) ==
    ray.pos = Origin0 /\ ray.dir = ZAxis /\ ray.tr = <<CallerFrame>>

\* C3: for nr >= 1 and nt >= 0, parallel_beam_p and point_source_p return
\* exactly 1 + (nr-1)*nt rays: the centre seed first, then the rings in
\* increasing ring index, each with its nt samples in increasing azimuth
\* index; nr = 1 yields only the centre ray, and nothing divides by zero.
C3_PolarLayout ==
    IsPolar =>
        /\ pc \in {"loop", "done"} /\ err = "none"
        /\ Len(ret_val) >= 1 /\ IsCentreSeed(ret_val[1])
        /\ (pc = "done" /\ loc.nr >= 1 /\ loc.nt >= 0) =>
              Len(ret_val) = 1 + (loc.nr - 1) * loc.nt
        /\ (pc = "done" /\ loc.nr = 1) => Len(ret_val) = 1
        /\ \A k \in 2..Len(ret_val) :
              LET r == RingOf(k, loc.nt)
                  t == AzimuthOf(k, loc.nt)
              IN  /\ r <= loc.nr - 1
                  /\ fn = "parallel_beam_p" =>
                        /\ ret_val[k].pos[1].u = <<"sin", t, loc.nt>>
                        /\ ret_val[k].pos[2].u = <<"cos", t, loc.nt>>
                        /\ ret_val[k].pos[1].c = RingRadius(args.radius, r, loc.nr)
                        /\ ret_val[k].pos[2].c = RingRadius(args.radius, r, loc.nr)
                        /\ ret_val[k].tr = <<CallerFrame>>
                  /\ fn = "point_source_p" =>
                        ret_val[k] =
                            PlaceRing(RingTilt(args.span, r, loc.nr),
                                      Azimuth(t, loc.nt), args)

C3_Witness ==
    /\ fn = "parallel_beam_p" /\ pc = "done"
    /\ loc.nr = 3 /\ loc.nt = 3 /\ Len(ret_val) = 7
    /\ ret_val[7].pos[1].u = <<"sin", 2, 3>>

ListPos(xv, yv) == <<Num(xv), Num(yv), Zero>>

\* C5: parallel_beam_list: both scalar -> one ray at local (x,y,0); one
\* scalar -> one ray per element of the sequence, the scalar repeated; both
\* sequences of equal length n -> n rays zipped in order; both sequences of
\* unequal length -> the error is raised before any ray is built and the
\* shorter length is never used.  (The code's ShapeMismatch is the
\* AssertionError of line 225.)
C5_ListBroadcast ==
    (fn = "parallel_beam_list" /\ Ended) =>
        LET x == args.x
            y == args.y
        IN  /\ (~x.seq /\ ~y.seq) =>
                  /\ pc = "done" /\ Len(ret_val) = 1
                  /\ ret_val[1].pos = ListPos(x.v, y.v)
            /\ (~x.seq /\ y.seq) =>
                  /\ pc = "done" /\ Len(ret_val) = Len(y.v)
                  /\ \A k \in 1..Len(y.v) : ret_val[k].pos = ListPos(x.v, y.v[k])
            /\ (x.seq /\ ~y.seq) =>
                  /\ pc = "done" /\ Len(ret_val) = Len(x.v)
                  /\ \A k \in 1..Len(x.v) : ret_val[k].pos = ListPos(x.v[k], y.v)
            /\ (x.seq /\ y.seq /\ Len(x.v) = Len(y.v)) =>
                  /\ pc = "done" /\ Len(ret_val) = Len(x.v)
                  /\ \A k \in 1..Len(x.v) : ret_val[k].pos = ListPos(x.v[k], y.v[k])
            /\ (x.seq /\ y.seq /\ Len(x.v) # Len(y.v)) =>
                  /\ pc = "raised" /\ err = "AssertionError"
                  /\ ret_val = <<>>
            /\ pc = "done" => err = "none"

\* parallel_beam_list(x=1.0, y=[1,2,...]) has returned one ray per element
C5_Witness ==
    /\ fn = "parallel_beam_list" /\ pc = "done"
    /\ ~args.x.seq /\ args.x.v = R(1)
    /\ args.y.seq /\ Len(args.y.v) = MaxLen /\ args.y.v[MaxLen] = R(2)
    /\ Len(ret_val) = MaxLen

\* parallel_beam_list(x=[1,2], y=[1,2,1]) has raised
C5_MismatchWitness ==
    /\ fn = "parallel_beam_list" /\ pc = "raised"
    /\ args.x.seq /\ args.y.seq /\ Len(args.x.v) = 2 /\ Len(args.y.v) = 3

Odd(n) == n % 2 = 1

\* sublattice and lattice indices of a ray of parallel_beam_h, read back from
\* the coefficients of its position: y_ is 2*ky*h or (2*ky+1)*h
HexSub(ray) == IF ray.pos[2].c[1] % 2 = 0 THEN 1 ELSE 2

HexKy(ray) == IF HexSub(ray) = 1 THEN ray.pos[2].c[1] \div 2
                                 ELSE (ray.pos[2].c[1] - 1) \div 2

HexKx(ray) == IF HexSub(ray) = 1 THEN ray.pos[1].c[1] \div 3
                                 ELSE (ray.pos[1].c[1] - 3) \div 6

IsHexCentre(ray) == ray.pos[1].c = R(0) /\ ray.pos[2].c = R(0)

\* <<a1, a2, a3>> comes strictly before <<b1, b2, b3>>
LexLess(a, b) ==
    \/ a[1] < b[1]
    \/ a[1] = b[1] /\ a[2] < b[2]
    \/ a[1] = b[1] /\ a[2] = b[2] /\ a[3] < b[3]

HexKey(ray) == <<HexSub(ray), HexKx(ray), HexKy(ray)>>

\* the index (from 1) at which a cartesian grid with odd counts emits (0,0)
CentreIndex(nx, ny) == ((nx - 1) \div 2) * ny + (ny - 1) \div 2 + 1

C6_HexWitness ==
    /\ fn = "parallel_beam_h" /\ pc = "done"
    /\ Len(ret_val) >= 2 /\ ~IsHexCentre(ret_val[1])
    /\ \E c \in 2..Len(ret_val) : IsHexCentre(ret_val[c])

\* C7: whenever parallel_beam_h returns, every ray has x^2 + y^2 <= radius^2,
\* and the order is: the accepted points (3*kx*l, 2*ky*h) of the first
\* sublattice, kx outer and ky inner, both increasing, then the accepted
\* points ((3*kx+1.5)*l, (2*ky+1)*h) of the second in the same order.
C7_HexInsideAndOrdered ==
    (fn = "parallel_beam_h" /\ pc \in {"loop", "loop2", "done"}) =>
        /\ \A k \in 1..Len(ret_val) :
              LET ray == ret_val[k]
              IN  /\ ray.pos[1].u = Unit("l") /\ ray.pos[2].u = Unit("h")
                  /\ ray.pos[3] = Zero
                  /\ RLe(RAdd(RMul(RSq(ray.pos[1].c), loc.l.sq),
                              RMul(RSq(ray.pos[2].c), loc.h.sq)),
                         RSq(args.radius))
                  /\ ray.pos[1].c = HexX(HexSub(ray), HexKx(ray))
                  /\ ray.pos[2].c = HexY(HexSub(ray), HexKy(ray))
                  /\ pc = "loop" => HexSub(ray) = 1
                  /\ k > 1 => LexLess(HexKey(ret_val[k - 1]), HexKey(ray))

\* both sublattices have contributed, and the radius test has rejected points
C7_Witness ==
    /\ fn = "parallel_beam_h" /\ pc = "done"
    /\ args.num_rays = R(MaxNumRays) /\ Len(ret_val) > 2
    /\ HexSub(ret_val[1]) = 1 /\ HexSub(ret_val[Len(ret_val)]) = 2
    /\ ~HexInside(1, HexRange(loc.r3l, R(0))[1], HexRange(loc.r2h, R(0))[1],
                  loc.l, loc.h, loc.radius_sq)

\* a sample-local transform: placed at origin (0,0,0)
IsLocal(t) == t.origin = Origin0

\* C8: every ray is obtained from its seed by transforms whose LAST is the one
\* ch_coord_sys_inv(origin, direction) of the caller; in the angular
\* strategies the sample-local tilts, at origin (0,0,0), come before it
\* (point_source_c and point_source_r: one tilt (a,b,0); point_source_p: the
\* tilt (r,0,0), then the rotation (0,0,tz)); the parallel strategies apply
\* nothing else.
C8_PlacementLast ==
    \A k \in 1..Len(ret_val) :
        LET tr == ret_val[k].tr
            n == Len(tr)
        IN  /\ n >= 1 /\ tr[n] = CallerFrame
            /\ fn \in {"parallel_beam_c", "parallel_beam_p",
                       "parallel_beam_list", "parallel_beam_h"} => n = 1
            /\ fn \in {"point_source_c", "point_source_r"} =>
                  /\ n = 2 /\ IsLocal(tr[1])
                  /\ tr[1].direction[3] = Zero
                  /\ ret_val[k].pos = Origin0
            /\ fn = "point_source_p" =>
                  /\ ret_val[k].pos = Origin0
                  /\ k = 1 => n = 1
                  /\ k > 1 =>
                        /\ n = 3 /\ IsLocal(tr[1]) /\ IsLocal(tr[2])
                        /\ tr[1].direction[2] = Zero /\ tr[1].direction[3] = Zero
                        /\ tr[1].direction[1].u = One
                        /\ tr[2].direction[1] = Zero /\ tr[2].direction[2] = Zero
                        /\ tr[2].direction[3].u = Unit("pi")

\* a tilted ray has been placed in a frame that is not the identity
C8_Witness ==
    /\ fn = "point_source_c" /\ pc = "done"
    /\ args.origin # Origin0
    /\ Len(ret_val) = 4
    /\ ret_val[4].tr[1].direction = <<Num(R(1)), Num(<<1, 2>>), Zero>>

\* what the loops of a returned call define, counts <= 0 included
Max0(n) == IF n < 0 THEN 0 ELSE n

\* C9: no strategy returns a partial beam: a call returns the complete
\* sequence its loops define or raises before the first ray is built (the
\* zero denominators of parallel_beam_c, num_rays = 0 in parallel_beam_h,
\* unequal lengths in parallel_beam_list); no error follows an append.
C9_NoPartialBeam ==
    /\ (pc = "raised") <=> (err # "none")
    /\ pc = "raised" => ret_val = <<>>
    /\ pc = "done" =>
          /\ IsCart => Len(ret_val) = Max0(loc.nx) * Max0(loc.ny)
          /\ IsPolar => Len(ret_val) = 1 + Max0(loc.nr - 1) * Max0(loc.nt)
          /\ fn = "point_source_r" => Len(ret_val) = Max0(args.num_rays)
          /\ fn = "parallel_beam_list" => Len(ret_val) = Len(loc.x)
          /\ fn = "parallel_beam_h" => HexDone(Half)
    /\ (Ended /\ fn = "parallel_beam_c" /\ loc.nx >= 1 /\ loc.ny >= 1
              /\ (loc.nx = 1 \/ loc.ny = 1)) => err = "ZeroDivisionError"
    /\ (Ended /\ fn = "parallel_beam_h" /\ args.num_rays = R(0)) =>
          err = "ZeroDivisionError"
    /\ (Ended /\ fn = "parallel_beam_list" /\ args.x.seq /\ args.y.seq
              /\ Len(args.x.v) # Len(args.y.v)) => err = "AssertionError"

\* parallel_beam_c(num_rays=(3,1)) has raised, with nothing appended
C9_Witness ==
    /\ fn = "parallel_beam_c" /\ pc = "raised"
    /\ loc.nx = 3 /\ loc.ny = 1 /\ ret_val = <<>>

\* the point <<kx, ky>> of sublattice sub lies within the radius: neither
\* x_**2 nor y_**2 alone exceeds radius_sq, and their sum does not
ValidPoint(sub, kx, ky) ==
    /\ RLe(SMulR(loc.l, HexX(sub, kx)).sq, loc.radius_sq)
    /\ RLe(SMulR(loc.h, HexY(sub, ky)).sq, loc.radius_sq)
    /\ HexInside(sub, kx, ky, loc.l, loc.h, loc.radius_sq)

\* kx, ky are in the ranges the loops of sublattice sub run over
InHexRanges(sub, kx, ky) ==
    LET off == IF sub = 1 THEN R(0) ELSE Half
        rx == HexRange(loc.r3l, off)
        ry == HexRange(loc.r2h, off)
    IN  rx[1] <= kx /\ kx < rx[2] /\ ry[1] <= ky /\ ky < ry[2]

\* C10: the index ranges of parallel_beam_h never truncate a valid lattice
\* point: for l > 0, h > 0 and radius >= 0, every integer pair whose point
\* of a sublattice lies within the radius is in that sublattice's loop ranges,
\* also when r3l, r2h, r3l-0.5 or r2h-0.5 is an exact integer, so that the
\* emitted set is symmetric under x -> -x and y -> -y.
C10_NoTruncation ==
    (fn = "parallel_beam_h" /\ pc \in {"loop", "loop2", "done"}
        /\ RSign(args.radius) >= 0) =>
        /\ \A sub \in 1..2, kx \in -HexWindow..HexWindow,
                             ky \in -HexWindow..HexWindow :
              ValidPoint(sub, kx, ky) => InHexRanges(sub, kx, ky)
        /\ pc = "done" =>
              \A k \in 1..Len(ret_val) :
                  /\ \E j \in 1..Len(ret_val) :
                        /\ ret_val[j].pos[1].c = RNeg(ret_val[k].pos[1].c)
                        /\ ret_val[j].pos[2].c = ret_val[k].pos[2].c
                  /\ \E j \in 1..Len(ret_val) :
                        /\ ret_val[j].pos[1].c = ret_val[k].pos[1].c
                        /\ ret_val[j].pos[2].c = RNeg(ret_val[k].pos[2].c)

\* C10 holds of every call in which none of the four ratios is an integer
C10_NoTruncationOffTies ==
    (fn = "parallel_beam_h" /\ args.num_rays # TieNumRays) => C10_NoTruncation

C10_OffTiesWitness ==
    /\ fn = "parallel_beam_h" /\ pc = "done" /\ args.num_rays = R(MaxNumRays)
    /\ Len(ret_val) > MaxNumRays
====
